---- MODULE Spec2Model ----
(***************************************************************************)
(* Model of src/app.py: a Streamlit page that loads pool metrics from a    *)
(* Supabase REST endpoint (memoized for 600 s), lets the user select pairs *)
(* and shows, per pair, the real rows plus one calculator row sorted by    *)
(* apy24h descending.                                                      *)
(*                                                                         *)
(* Numbers are exact rationals [n, d] in lowest terms with d > 0; the      *)
(* float NaN that pandas produces for a missing or unparseable value is    *)
(* the record with d = 0.  Strings that the code parses are sequences of   *)
(* one-character strings.                                                  *)
(***************************************************************************)
EXTENDS Integers, Sequences, FiniteSets, TLC

\* ------------------------------------------------------------------ bounds

\* Longest table (in rows) the store answers with.
MaxRows == 2
\* The clock stops advancing here (seconds).
MaxTime == 1200
\* Seconds that elapse in one Tick.
TickSeconds == 300

\* --------------------------------------------------------------- constants

\* @st.cache_data(ttl=600)
ttl == 600

\* ---------------------------------------------------------------- numbers

RECURSIVE GCD(_, _)
GCD(a, b) == IF b = 0 THEN a ELSE GCD(b, a % b)

Abs(x) == IF x < 0 THEN -x ELSE x

\* n/d in lowest terms (d > 0).
Rat(n, d) ==
    LET g == GCD(Abs(n), d)
    IN  [n |-> n \div g, d |-> d \div g]

FromInt(i) == [n |-> i, d |-> 1]
Zero == FromInt(0)
NaN == [n |-> 0, d |-> 0]

IsNumber(x) == x.d > 0
RatMul(a, b) == Rat(a.n * b.n, a.d * b.d)
\* a / b for b > 0
RatDiv(a, b) == Rat(a.n * b.d, a.d * b.n)
RatLess(a, b) == a.n * b.d < b.n * a.d
RatEq(a, b) == a.n * b.d = b.n * a.d

\* Python's int(x) and float -> int of a finite number: truncation toward 0.
IntTrunc(x) == IF x.n >= 0 THEN x.n \div x.d ELSE -((-x.n) \div x.d)

\* ------------------------------------------------------- the store's answers

\* A JSON value of a numeric column: a number, a string or null.
JNum(n, d) == [t |-> "num", v |-> Rat(n, d), s |-> <<>>]
JStr(s) == [t |-> "str", v |-> Zero, s |-> s]
JNull == [t |-> "null", v |-> Zero, s |-> <<>>]

Digits == <<"0", "1", "2", "3", "4", "5", "6", "7", "8", "9">>
IsDigit(c) == \E i \in 1..10 : Digits[i] = c
DigitVal(c) == (CHOOSE i \in 1..10 : Digits[i] = c) - 1

RECURSIVE ParseDigits(_)
ParseDigits(s) ==
    IF s = <<>> THEN 0
    ELSE 10 * ParseDigits(SubSeq(s, 1, Len(s) - 1)) + DigitVal(s[Len(s)])

AllDigits(s) == s # <<>> /\ \A i \in 1..Len(s) : IsDigit(s[i])

\* pd.to_numeric(..., errors='coerce') of one value: a number stays, a string
\* is parsed (optional sign, decimal digits), anything else becomes NaN.
ToNumeric(j) ==
    IF j.t = "num" THEN j.v
    ELSE IF j.t = "str" THEN
        IF AllDigits(j.s) THEN FromInt(ParseDigits(j.s))
        ELSE IF j.s # <<>> /\ j.s[1] = "-" /\ AllDigits(Tail(j.s))
             THEN FromInt(-ParseDigits(Tail(j.s)))
             ELSE NaN
    ELSE NaN

\* .fillna(0)
FillNaNoOp(x) == x
FillNa(x) == IF IsNumber(x) THEN x ELSE Zero

NumericCols == <<"apy24h", "tvl", "volume24h2", "fees24h", "tier">>

\* for col in [...]: df[col] = pd.to_numeric(df[col], errors='coerce').fillna(0)
CoerceRow(r) ==
    [pair       |-> r.pair,
     dex        |-> r.dex,
     tier       |-> FillNa(ToNumeric(r.tier)),
     tvl        |-> FillNa(ToNumeric(r.tvl)),
     volume24h2 |-> FillNa(ToNumeric(r.volume24h2)),
     fees24h    |-> FillNa(ToNumeric(r.fees24h)),
     apy24h     |-> FillNa(ToNumeric(r.apy24h))]

Col(r, c) ==
    CASE c = "apy24h" -> r.apy24h
      [] c = "tvl" -> r.tvl
      [] c = "volume24h2" -> r.volume24h2
      [] c = "fees24h" -> r.fees24h
      [] c = "tier" -> r.tier

RawRow(pair, dex, tier, tvl, vol, fees, apy) ==
    [pair |-> pair, dex |-> dex, tier |-> tier, tvl |-> tvl,
     volume24h2 |-> vol, fees24h |-> fees, apy24h |-> apy]

\* Rows the store may hold for blockchain = 'hyperevm'.
RawRows ==
    { RawRow("A/B", "x", JNum(1, 1), JNum(1000, 1), JNum(100, 1), JNum(1, 1), JNum(10, 1)),
      RawRow("A/B", "y", JNum(1, 1), JNum(2000, 1), JNum(100, 1), JNum(2, 1), JNum(5, 1)),
      RawRow("A/B", "z", JStr(<<"3">>), JNum(500, 1), JStr(<<"-", "7">>), JNull,
             JStr(<<"1", "0">>)),
      RawRow("A/B", "gliquid", JStr(<<"n", "/", "a">>), JNull, JStr(<<>>), JNull, JNull),
      RawRow("kHYPE/WHYPE", "gliquid", JNum(5, 2), JNum(20001, 2), JNum(500, 1),
             JNum(3, 1), JNum(7, 1)) }

RECURSIVE SeqsUpTo(_, _)
SeqsUpTo(S, k) ==
    IF k = 0 THEN {<<>>}
    ELSE LET shorter == SeqsUpTo(S, k - 1)
         IN  shorter \cup {Append(t, x) : t \in {u \in shorter : Len(u) = k - 1}, x \in S}

StoreTables == SeqsUpTo(RawRows, MaxRows) \ {<<>>}

\* What requests.get does: an answer with a status and a JSON body, or a
\* requests.exceptions.RequestException.
Answer(status, body) == [kind |-> "answer", status |-> status, body |-> body]
Responses ==
    {Answer(200, t) : t \in StoreTables}
    \cup {Answer(200, <<>>), Answer(401, <<>>), Answer(500, <<>>)}
    \cup {[kind |-> "exception", status |-> 0, body |-> <<>>]}
NoResponse == [kind |-> "none", status |-> 0, body |-> <<>>]

\* ------------------------------------------------------------- load_data

Msg(level, what, code) == [level |-> level, what |-> what, code |-> code]

Returned(d, msgs) == [raised |-> FALSE, df |-> d, msgs |-> msgs]
\* An exception that leaves load_data: nothing is returned.
Raised == [raised |-> TRUE, df |-> <<>>, msgs |-> <<>>]

\* load_data with no `except requests.exceptions.RequestException`.
LoadDataBodyUncaught(resp) ==
    IF resp.kind = "exception"
    THEN Raised
    ELSE IF resp.status = 200
         THEN IF resp.body # <<>>
              THEN Returned([i \in 1..Len(resp.body) |-> CoerceRow(resp.body[i])], <<>>)
              ELSE Returned(<<>>, <<Msg("warning", "empty", 0)>>)
         ELSE Returned(<<>>, <<Msg("error", "api_status", resp.status)>>)

\* load_data with no st.warning in the empty branch.
LoadDataBodySilentEmpty(resp) ==
    IF resp.kind = "exception"
    THEN Returned(<<>>, <<Msg("error", "connection", 0)>>)
    ELSE IF resp.status = 200
         THEN IF resp.body # <<>>
              THEN Returned([i \in 1..Len(resp.body) |-> CoerceRow(resp.body[i])], <<>>)
              ELSE Returned(<<>>, <<>>)
         ELSE Returned(<<>>, <<Msg("error", "api_status", resp.status)>>)

\* The body of load_data: the table it returns and the st.* messages it shows.
LoadDataBody(resp) ==
    IF resp.kind = "exception"
    THEN Returned(<<>>, <<Msg("error", "connection", 0)>>)
    ELSE IF resp.status = 200
         THEN IF resp.body # <<>>
              THEN Returned([i \in 1..Len(resp.body) |-> CoerceRow(resp.body[i])], <<>>)
              ELSE Returned(<<>>, <<Msg("warning", "empty", 0)>>)
         ELSE Returned(<<>>, <<Msg("error", "api_status", resp.status)>>)

\* ------------------------------------------------------------- rendering

\* Python's order of the pair names (sorted(df['pair'].unique())).
PairOrder == <<"A/B", "kHYPE/WHYPE">>
PairNames == {PairOrder[i] : i \in 1..Len(PairOrder)}

InSet(S) == [x \in PairNames |-> x \in S]
AllPairsOf(d) ==
    LET present == InSet({d[i].pair : i \in 1..Len(d)})
        Keep(p) == present[p]
    IN  SelectSeq(PairOrder, Keep)

\* default_selection = ['kHYPE/WHYPE'] if 'kHYPE/WHYPE' in all_pairs else []
DefaultSelection(all_pairs) ==
    IF \E i \in 1..Len(all_pairs) : all_pairs[i] = "kHYPE/WHYPE"
    THEN <<"kHYPE/WHYPE">> ELSE <<>>

\* pair_df = df[df['pair'] == pair].copy()
PairDfAllRows(d, pair) == d
PairDf(d, pair) ==
    LET Keep(r) == r.pair = pair
    IN  SelectSeq(d, Keep)

\* The calculator's default values.
Defaults(pair_df) ==
    LET IsGliquid(r) == r.dex = "gliquid"
        gliquid_data == SelectSeq(pair_df, IsGliquid)
    IN  IF gliquid_data # <<>>
        THEN [tier   |-> gliquid_data[1].tier,
              tvl    |-> IntTrunc(gliquid_data[1].tvl),
              volume |-> IntTrunc(gliquid_data[1].volume24h2)]
        ELSE [tier |-> FromInt(1), tvl |-> 100000, volume |-> 50000]

\* new_apy = (new_tier * new_volume / new_tvl) * 365 if new_tvl > 0 else 0
NewApyPercent(new_tier, new_volume, new_tvl) ==
    IF new_tvl > 0
    THEN RatMul(RatMul(RatDiv(RatMul(new_tier, FromInt(new_volume)), FromInt(new_tvl)),
                       FromInt(365)), FromInt(100))
    ELSE Zero
NewApy(new_tier, new_volume, new_tvl) ==
    IF new_tvl > 0
    THEN RatMul(RatDiv(RatMul(new_tier, FromInt(new_volume)), FromInt(new_tvl)),
                FromInt(365))
    ELSE Zero

\* new_row_data
NewRowData(pair, v) ==
    [pair       |-> pair,
     dex        |-> "gliquid_test",
     tier       |-> v.tier,
     tvl        |-> FromInt(v.tvl),
     volume24h2 |-> FromInt(v.volume),
     fees24h    |-> Zero,
     apy24h     |-> NewApy(v.tier, v.volume, v.tvl)]

\* combined_df = pd.concat([new_row_df, pair_df])
CombinedDf(new_row, pair_df) == <<new_row>> \o pair_df

Perms(n) == {p \in [1..n -> 1..n] : \A i, j \in 1..n : p[i] = p[j] => i = j}

\* combined_df.sort_values(by='apy24h', ascending=False): the orders the sort
\* may produce.  The sort kind is pandas' default, quicksort, which is not a
\* stable sort: rows with equal apy24h may come out in any relative order.
SortOrdersAscending(combined) ==
    {p \in Perms(Len(combined)) :
        \A i, j \in 1..Len(combined) :
            i < j => ~RatLess(combined[p[j]].apy24h, combined[p[i]].apy24h)}
SortOrders(combined) ==
    {p \in Perms(Len(combined)) :
        \A i, j \in 1..Len(combined) :
            i < j => ~RatLess(combined[p[i]].apy24h, combined[p[j]].apy24h)}

\* The values the three number inputs of a pair return: the user's, if the
\* user edited them, else the defaults.
Unset == [set |-> FALSE, tier |-> Zero, tvl |-> 0, volume |-> 0]
UserInput(tier, tvl, volume) == [set |-> TRUE, tier |-> tier, tvl |-> tvl, volume |-> volume]
NumberInputs(pair_df, inp) ==
    IF inp.set THEN [tier |-> inp.tier, tvl |-> inp.tvl, volume |-> inp.volume]
    ELSE Defaults(pair_df)

\* What the user may type into the calculator.
CalcInputs ==
    { UserInput(FromInt(2), 1000, 500),
      UserInput(FromInt(1), 0, 500),
      UserInput(Rat(3, 2), -2000, 100) }

\* The tables one pair's expander may show: sorted_df, with `index` the
\* position each row had in combined_df (the index reset_index drops).
TablesFor(d, pair, inp) ==
    LET pair_df == PairDf(d, pair)
        combined == CombinedDf(NewRowData(pair, NumberInputs(pair_df, inp)), pair_df)
    IN  {[pair  |-> pair,
          rows  |-> [i \in 1..Len(combined) |-> combined[p[i]]],
          index |-> p] : p \in SortOrders(combined)}

\* One table per pair of `order`, in that order.
TablesInOrder(d, order, inps) ==
    LET choices == UNION {TablesFor(d, order[i], inps[order[i]]) : i \in 1..Len(order)}
    IN  {ts \in [1..Len(order) -> choices] :
            \A i \in 1..Len(order) : ts[i] \in TablesFor(d, order[i], inps[order[i]])}

Reverse(q) == [i \in 1..Len(q) |-> q[Len(q) + 1 - i]]
RenderedTablesReversed(d, selected, inps) == TablesInOrder(d, Reverse(selected), inps)

\* for pair in selected_pairs: (one expander and one table each)
RenderedTables(d, selected, inps) == TablesInOrder(d, selected, inps)

\* The selections a multiselect over `options` can return: no repetition,
\* in the order the user picked.
Selections(options) ==
    LET S == {options[i] : i \in 1..Len(options)}
    IN  {s \in SeqsUpTo(S, Len(options)) :
            \A i, j \in 1..Len(s) : s[i] = s[j] => i = j}

\* ------------------------------------------------------------------ state

VARIABLES
    secrets,      \* the names st.secrets holds
    now,          \* the clock, in seconds
    cache,        \* st.cache_data's entry for load_data()
    pc,           \* where the script run is: "creds", "load", "body", "button"; "idle" between runs
    clicked,      \* the run was started by a click on 'Recargar Datos'
    df,           \* the run's df
    page,         \* what the run has put on the page
    selection,    \* the multiselect's widget state
    inputs,       \* the number inputs' widget state, per pair (keys tier_/tvl_/vol_{pair})
    queried,      \* the run has sent a request to the store
    loadCalled,   \* the run has called load_data()
    response,     \* what the store answered to the run's request
    hadMemo,      \* a memoized result existed when the run called load_data()
    lastQueryAt,  \* history: when the last request was sent (-1: never)
    clearedSince, \* history: st.cache_data.clear() ran since the last request
    loaded        \* history: the table load_data returned when the memoized entry was made

vars == <<secrets, now, cache, pc, clicked, df, page, selection, inputs, queried,
          loadCalled, response, hadMemo, lastQueryAt, clearedSince, loaded>>

history == <<lastQueryAt, clearedSince, loaded>>

SecretNames == {"SUPABASE_URL", "SUPABASE_KEY"}

NoMemo == [valid |-> FALSE, created |-> 0, df |-> <<>>, msgs |-> <<>>]
Memo(t, result) == [valid |-> TRUE, created |-> t, df |-> result.df, msgs |-> result.msgs]

\* st.cache_data(ttl=600): an entry is served until ttl seconds after its creation.
MemoExists(c, t) == c.valid /\ t - c.created < ttl

\* What st.cache_data keeps of a call: the value returned and the messages shown.
MemoizeNonEmpty(t, result) == IF result.df # <<>> THEN Memo(t, result) ELSE NoMemo
Memoize(t, result) == Memo(t, result)

EmptyPage == [signals |-> <<>>, widgets |-> {}, options |-> <<>>, selected |-> <<>>,
              tables |-> <<>>]

NoSelection == [set |-> FALSE, options |-> <<>>, value |-> <<>>]
NoInputs == [p \in PairNames |-> Unset]

Init ==
    /\ secrets \in SUBSET SecretNames
    /\ now = 0
    /\ cache = NoMemo
    /\ pc = "creds"
    /\ clicked = FALSE
    /\ df = <<>>
    /\ page = EmptyPage
    /\ selection = NoSelection
    /\ inputs = NoInputs
    /\ queried = FALSE
    /\ loadCalled = FALSE
    /\ response = NoResponse
    /\ hadMemo = FALSE
    /\ lastQueryAt = -1
    /\ clearedSince = FALSE
    /\ loaded = <<>>

\* A script run starts from the top with an empty page.
StartRun ==
    /\ pc' = "creds"
    /\ df' = <<>>
    /\ page' = EmptyPage
    /\ queried' = FALSE
    /\ loadCalled' = FALSE
    /\ response' = NoResponse
    /\ hadMemo' = FALSE

\* ------------------------------------------------------------ the user

Tick ==
    /\ pc = "idle"
    /\ now + TickSeconds <= MaxTime
    /\ now' = now + TickSeconds
    \* an entry whose ttl has run out is gone (st.cache_data drops it at the next call)
    /\ cache' = IF MemoExists(cache, now') THEN cache ELSE NoMemo
    /\ loaded' = IF MemoExists(cache, now') THEN loaded ELSE <<>>
    /\ UNCHANGED <<secrets, pc, clicked, df, page, selection, inputs, queried,
                   loadCalled, response, hadMemo, lastQueryAt, clearedSince>>

\* The user reruns the page without touching a widget.
Rerun ==
    /\ pc = "idle"
    /\ StartRun
    /\ clicked' = FALSE
    /\ UNCHANGED <<secrets, now, cache, selection, inputs, history>>

\* The user changes the multiselect.
SelectPairs ==
    /\ pc = "idle"
    /\ "multiselect" \in page.widgets
    /\ \E s \in Selections(page.options) :
        /\ s # page.selected
        /\ selection' = [set |-> TRUE, options |-> page.options, value |-> s]
    /\ StartRun
    /\ clicked' = FALSE
    /\ UNCHANGED <<secrets, now, cache, inputs, history>>

\* The user edits the calculator of a pair that is on the page.
EditCalculator ==
    /\ pc = "idle"
    /\ \E i \in 1..Len(page.tables), inp \in CalcInputs :
        /\ inputs[page.tables[i].pair] # inp
        /\ inputs' = [inputs EXCEPT ![page.tables[i].pair] = inp]
    /\ StartRun
    /\ clicked' = FALSE
    /\ UNCHANGED <<secrets, now, cache, selection, history>>

\* The user clicks 'Recargar Datos'.
ClickReload ==
    /\ pc = "idle"
    /\ "button" \in page.widgets
    /\ StartRun
    /\ clicked' = TRUE
    /\ UNCHANGED <<secrets, now, cache, selection, inputs, history>>

\* ------------------------------------------------------------ the script

\* try: st.secrets[...] except KeyError: st.error(...); st.stop()
CredentialsPresentUrlOnly(s) == "SUPABASE_URL" \in s
CredentialsPresent(s) == "SUPABASE_URL" \in s /\ "SUPABASE_KEY" \in s

CheckCredentials ==
    /\ pc = "creds"
    /\ IF CredentialsPresent(secrets)
       THEN /\ pc' = "load"
            \* st.title(...), st.markdown(...)
            /\ page' = [page EXCEPT !.widgets = @ \cup {"title"}]
            /\ UNCHANGED <<selection, inputs, clicked>>
       ELSE /\ pc' = "idle"
            /\ page' = [page EXCEPT !.signals = Append(@, Msg("error", "config", 0))]
            \* the run ends with no widget on the page: their state is dropped
            /\ selection' = NoSelection
            /\ inputs' = NoInputs
            /\ clicked' = FALSE
    /\ UNCHANGED <<secrets, now, cache, df, queried, loadCalled, response, hadMemo,
                   history>>

\* df = load_data(), served from the memoized result (its messages are shown again).
LoadDataCached ==
    /\ pc = "load"
    /\ MemoExists(cache, now)
    /\ df' = cache.df
    /\ page' = [page EXCEPT !.signals = @ \o cache.msgs]
    /\ loadCalled' = TRUE
    /\ hadMemo' = TRUE
    /\ pc' = "body"
    /\ UNCHANGED <<secrets, now, cache, clicked, selection, inputs, queried, response,
                   history>>

\* df = load_data(), no memoized result: the body runs and what it returns is
\* memoized.  An exception leaving load_data would end the run with the
\* exception on the page and nothing memoized.
LoadDataQuery ==
    /\ pc = "load"
    /\ ~MemoExists(cache, now)
    /\ \E resp \in Responses :
        LET result == LoadDataBody(resp)
        IN  /\ response' = resp
            /\ IF result.raised
               THEN /\ page' = [page EXCEPT
                                   !.signals = Append(@, Msg("exception", "uncaught", 0))]
                    /\ pc' = "idle"
                    /\ selection' = NoSelection
                    /\ inputs' = NoInputs
                    /\ clicked' = FALSE
                    /\ UNCHANGED <<cache, df, loaded>>
               ELSE /\ page' = [page EXCEPT !.signals = @ \o result.msgs]
                    /\ pc' = "body"
                    /\ cache' = Memoize(now, result)
                    /\ df' = result.df
                    /\ loaded' = result.df
                    /\ UNCHANGED <<selection, inputs, clicked>>
    /\ queried' = TRUE
    /\ loadCalled' = TRUE
    /\ hadMemo' = FALSE
    /\ lastQueryAt' = now
    /\ clearedSince' = FALSE
    /\ UNCHANGED <<secrets, now>>

\* if not df.empty: ... else: st.info(...)   (everything but the cache)
RenderPage ==
    /\ pc = "body"
    /\ IF df # <<>>
       THEN LET all_pairs == AllPairsOf(df)
                \* a multiselect whose options changed is a new widget
                kept == selection.set /\ selection.options = all_pairs
                selected_pairs == IF kept THEN selection.value
                                  ELSE DefaultSelection(all_pairs)
                shown == InSet({selected_pairs[i] : i \in 1..Len(selected_pairs)})
            IN  /\ selection' = IF kept THEN selection ELSE NoSelection
                /\ inputs' = [p \in PairNames |-> IF shown[p] THEN inputs[p] ELSE Unset]
                /\ IF selected_pairs # <<>>
                   THEN \E ts \in RenderedTables(df, selected_pairs, inputs) :
                            page' = [page EXCEPT !.widgets = @ \cup {"multiselect"},
                                                 !.options = all_pairs,
                                                 !.selected = selected_pairs,
                                                 !.tables = ts]
                   ELSE page' = [page EXCEPT
                                    !.widgets = @ \cup {"multiselect"},
                                    !.options = all_pairs,
                                    !.selected = selected_pairs,
                                    !.signals = Append(@, Msg("info", "select_prompt", 0))]
       ELSE /\ page' = [page EXCEPT !.signals = Append(@, Msg("info", "no_data", 0))]
            /\ selection' = NoSelection
            /\ inputs' = NoInputs
    /\ pc' = "button"
    /\ UNCHANGED <<secrets, now, clicked, df, queried, loadCalled, response, hadMemo,
                   history>>

\* The same, writing the last combined table into the memoized one.
RenderBodyInPlace ==
    /\ RenderPage
    /\ cache' = IF page'.tables # <<>>
                THEN [cache EXCEPT !.df = page'.tables[Len(page'.tables)].rows]
                ELSE cache

\* Lines 73-137: the rendering reads df and leaves the memoized table alone.
RenderBody ==
    /\ RenderPage
    /\ UNCHANGED cache

\* if st.button('Recargar Datos'): st.cache_data.clear(); st.rerun()
ReloadButton ==
    /\ pc = "button"
    /\ IF clicked
       THEN /\ cache' = NoMemo
            /\ clearedSince' = TRUE
            /\ StartRun
            /\ clicked' = FALSE
            /\ loaded' = <<>>
            /\ UNCHANGED lastQueryAt
       ELSE /\ page' = [page EXCEPT !.widgets = @ \cup {"button"}]
            /\ pc' = "idle"
            /\ UNCHANGED <<cache, clicked, df, queried, loadCalled, response, hadMemo,
                           history>>
    /\ UNCHANGED <<secrets, now, selection, inputs>>

Next ==
    \/ Tick
    \/ Rerun
    \/ SelectPairs
    \/ EditCalculator
    \/ ClickReload
    \/ CheckCredentials
    \/ LoadDataCached
    \/ LoadDataQuery
    \/ RenderBody
    \/ ReloadButton

Spec == Init /\ [][Next]_vars

\* ------------------------------------------------------------- properties

CalcDex == "gliquid_test"
Count(q, x) == Cardinality({i \in 1..Len(q) : q[i] = x})
ConfigError == Msg("error", "config", 0)
SelectPrompt == Msg("info", "select_prompt", 0)
NoDataNotice == Msg("info", "no_data", 0)
Tables == {page.tables[k] : k \in 1..Len(page.tables)}
\* The calculator row of a table: the row that was first in combined_df.
CalcRow(t) == t.rows[CHOOSE c \in 1..Len(t.rows) : t.index[c] = 1]

\* C1: a run that calls load_data sends a request to the store if and only if
\* there is no memoized result at that moment: no request was ever sent, ttl
\* seconds have passed since the last one, or the reload action cleared the
\* cache since; otherwise the table returned to the last request (an empty
\* one too) is reused and the cache entry stays as it is.
C1_QueryIffNoMemo ==
    [][(pc = "load" /\ pc' # "load") =>
        LET noMemo == \/ lastQueryAt = -1
                      \/ now - lastQueryAt >= ttl
                      \/ clearedSince
        IN  /\ queried' <=> noMemo
            /\ ~noMemo => (df' = loaded /\ cache' = cache /\ cache.df = loaded)]_vars

\* A run reuses the memoized empty table of a failed or empty load.
C1_Witness ==
    /\ pc = "body" /\ hadMemo /\ ~queried
    /\ df = <<>> /\ Len(page.signals) = 1
    /\ now - lastQueryAt = TickSeconds

\* C2: with a credential missing the run halts on the configuration error: no
\* request is sent, load_data is not called, and nothing after the check is
\* put on the page.
C2_HaltBeforeQuery ==
    ~(SecretNames \subseteq secrets) =>
        /\ ~queried /\ ~loadCalled
        /\ pc \in {"creds", "idle"}
        /\ page.widgets = {} /\ page.tables = <<>> /\ page.options = <<>>
        /\ page.signals \in {<<>>, <<ConfigError>>}
        /\ pc = "idle" => page.signals = <<ConfigError>>
        /\ ~cache.valid /\ lastQueryAt = -1

C2_Witness ==
    /\ secrets = {"SUPABASE_URL"}
    /\ pc = "idle"
    /\ page.signals = <<ConfigError>>

\* C3: to an empty answer (200, no rows), a non-200 answer or a connection
\* failure load_data returns an empty table and shows exactly one message: a
\* warning for the empty answer, an error for the failures.
C3_OneSignal ==
    (pc = "body" /\ queried /\
        (response.kind = "exception" \/ response.status # 200 \/ response.body = <<>>)) =>
        /\ df = <<>>
        /\ cache.valid /\ cache.df = <<>>
        /\ Len(page.signals) = 1
        /\ cache.msgs = page.signals
        /\ page.signals[1].level =
              IF response.kind = "answer" /\ response.status = 200
              THEN "warning" ELSE "error"

C3_Witness ==
    /\ pc = "body" /\ queried
    /\ response = Answer(200, <<>>)
    /\ page.signals = <<Msg("warning", "empty", 0)>>

\* A source value pd.to_numeric cannot read as a number.
Unparseable(j) ==
    \/ j.t = "null"
    \/ j.t = "str" /\ (j.s = <<>> \/ \E i \in 1..Len(j.s) :
                                        ~IsDigit(j.s[i]) /\ ~(i = 1 /\ j.s[i] = "-"))

\* C4: after a successful non-empty load every designated numeric column of
\* every row is a number, a missing or unparseable source value being 0 and a
\* source number itself; no other value is in a table any run renders from.
C4_NumericColumns ==
    /\ \A i \in 1..Len(df), c \in 1..Len(NumericCols) : IsNumber(Col(df[i], NumericCols[c]))
    /\ \A i \in 1..Len(cache.df), c \in 1..Len(NumericCols) :
            IsNumber(Col(cache.df[i], NumericCols[c]))
    /\ \A t \in Tables : \A i \in 1..Len(t.rows), c \in 1..Len(NumericCols) :
            IsNumber(Col(t.rows[i], NumericCols[c]))
    /\ (pc = "body" /\ queried /\ response.body # <<>>) =>
        /\ Len(df) = Len(response.body)
        /\ \A i \in 1..Len(df), c \in 1..Len(NumericCols) :
            LET raw == Col(response.body[i], NumericCols[c])
                val == Col(df[i], NumericCols[c])
            IN  /\ Unparseable(raw) => val = Zero
                /\ raw.t = "num" => val = raw.v

C4_Witness ==
    /\ pc = "body" /\ queried
    /\ \E i \in 1..Len(df) :
        /\ response.body[i].apy24h = JNull
        /\ response.body[i].tier = JStr(<<"n", "/", "a">>)
        /\ df[i].apy24h = Zero /\ df[i].tier = Zero

\* C5: every rendered table is a permutation of the loaded rows of its pair
\* plus exactly one calculator row, ordered by apy24h non-increasing; it has
\* one row more than the pair has loaded rows.
C5_PermutationSorted ==
    \A t \in Tables :
        LET n == Len(t.rows)
            real == {i \in 1..Len(df) : df[i].pair = t.pair}
        IN  /\ n = Cardinality(real) + 1
            /\ \A i \in 1..(n - 1) : ~RatLess(t.rows[i].apy24h, t.rows[i + 1].apy24h)
            /\ \E c \in 1..n :
                /\ t.rows[c].dex = CalcDex /\ t.rows[c].pair = t.pair
                /\ \A i \in 1..n :
                    Count(t.rows, t.rows[i]) =
                        Count(df, t.rows[i]) + (IF t.rows[i] = t.rows[c] THEN 1 ELSE 0)
                /\ \A i \in real : Count(t.rows, df[i]) = Count(df, df[i])

\* Real rows (x, 10), (y, 5) with tier=2, tvl=1000, volume=500 are shown as
\* calculator(365), x(10), y(5).
C5_Witness ==
    \E t \in Tables :
        /\ Len(t.rows) = 3
        /\ <<t.rows[1].dex, t.rows[2].dex, t.rows[3].dex>> = <<CalcDex, "x", "y">>
        /\ <<t.rows[1].apy24h, t.rows[2].apy24h, t.rows[3].apy24h>>
              = <<FromInt(365), FromInt(10), FromInt(5)>>
        /\ inputs[t.pair] = UserInput(FromInt(2), 1000, 500)

\* C6: the calculator row carries the inputs; its apy24h is tier * volume /
\* tvl * 365 when tvl > 0 and 0 (no division) otherwise, its fees24h is 0 and
\* its dex is 'gliquid_test'.
C6_CalculatorApy ==
    \A t \in Tables :
        LET cr == CalcRow(t)
            inp == inputs[t.pair]
        IN  /\ cr.dex = CalcDex /\ cr.pair = t.pair
            /\ cr.fees24h = Zero
            /\ IsNumber(cr.apy24h)
            /\ cr.tvl.d = 1 /\ cr.volume24h2.d = 1
            /\ inp.set => /\ cr.tier = inp.tier
                          /\ cr.tvl = FromInt(inp.tvl)
                          /\ cr.volume24h2 = FromInt(inp.volume)
            /\ IF cr.tvl.n > 0
               THEN cr.apy24h.n * cr.tier.d * cr.tvl.n
                      = cr.tier.n * cr.volume24h2.n * 365 * cr.apy24h.d
               ELSE cr.apy24h = Zero

\* One page with a calculator row of tvl 0 (apy 0) and one of the defaults
\* taken from a gliquid row: 2.5 * 500 / 10000 * 365 = 45.625.
C6_Witness ==
    \E t1, t2 \in Tables :
        /\ CalcRow(t1).tvl = Zero /\ CalcRow(t1).apy24h = Zero
        /\ CalcRow(t1).volume24h2 = FromInt(500)
        /\ CalcRow(t2).tvl = FromInt(10000) /\ CalcRow(t2).apy24h = Rat(365, 8)

\* C7: with a non-empty loaded table a finished run shows one table per
\* selected pair, in the order the user selected them, and no prompt; with an
\* empty selection it shows the prompt only: no table and no calculator input.
C7_OneTablePerSelectedPair ==
    (pc \in {"button", "idle"} /\ loadCalled /\ df # <<>>) =>
        LET selected == IF selection.set THEN selection.value
                        ELSE IF \E i \in 1..Len(df) : df[i].pair = "kHYPE/WHYPE"
                             THEN <<"kHYPE/WHYPE">> ELSE <<>>
        IN  /\ page.selected = selected
            /\ "multiselect" \in page.widgets
            /\ IF selected # <<>>
               THEN /\ Len(page.tables) = Len(selected)
                    /\ \A i \in 1..Len(selected) : page.tables[i].pair = selected[i]
                    /\ page.signals = <<>>
               ELSE /\ page.tables = <<>>
                    /\ page.signals = <<SelectPrompt>>
                    /\ inputs = NoInputs

C7_Witness ==
    /\ pc = "idle"
    /\ selection.set /\ selection.value = <<"kHYPE/WHYPE", "A/B">>
    /\ Len(page.tables) = 2
    /\ page.tables[1].pair = "kHYPE/WHYPE" /\ page.tables[2].pair = "A/B"

\* C8: to a non-200 answer or a transport failure load_data returns an empty
\* table, no exception leaves it, the error is on the page, and the run goes
\* on to the end: the 'no data' notice, no pair selector, no table, and the
\* reload button.
C8_NoExceptionEscapes ==
    (queried /\ (response.kind = "exception" \/ response.status # 200)) =>
        /\ \A i \in 1..Len(page.signals) : page.signals[i].level # "exception"
        /\ pc \in {"body", "button", "idle"}
        /\ df = <<>>
        /\ Len(page.signals) >= 1
        /\ page.signals[1] = IF response.kind = "exception"
                             THEN Msg("error", "connection", 0)
                             ELSE Msg("error", "api_status", response.status)
        /\ "multiselect" \notin page.widgets /\ page.tables = <<>>
        /\ pc \in {"button", "idle"} => page.signals = <<page.signals[1], NoDataNotice>>
        /\ pc = "idle" => "button" \in page.widgets

C8_Witness ==
    /\ pc = "idle" /\ queried
    /\ response = Answer(500, <<>>)
    /\ page.signals = <<Msg("error", "api_status", 500), NoDataNotice>>
    /\ page.widgets = {"title", "button"}

\* C9: rendering leaves the memoized table as it was loaded: the same rows in
\* the same order, the calculator row never among them.
C9_CacheUntouched ==
    /\ cache.valid =>
        /\ cache.df = loaded
        /\ Len(cache.df) <= MaxRows
        /\ \A i \in 1..Len(cache.df) : cache.df[i].dex # CalcDex
    /\ (cache.valid /\ loadCalled) => df = cache.df

\* A second run on the same memoized table, with a calculator edited.
C9_Witness ==
    /\ pc = "idle" /\ hadMemo /\ cache.valid
    /\ \E t \in Tables : inputs[t.pair].set /\ Len(t.rows) = 3

\* C10 as stated: two (different) rows of the combined set with equal apy24h
\* are shown in the order they have in the combined set.
C10_StableForTies ==
    \A t \in Tables : \A i, j \in 1..Len(t.rows) :
        (i < j /\ RatEq(t.rows[i].apy24h, t.rows[j].apy24h) /\ t.rows[i] # t.rows[j])
            => t.index[i] < t.index[j]

\* C10 amended: two rows with different apy24h are shown larger first; the
\* order of rows with equal apy24h is whatever the sort produces.
C10_OrderedUpToTies ==
    \A t \in Tables : \A i, j \in 1..Len(t.rows) :
        /\ t.index \in Perms(Len(t.rows))
        /\ RatLess(t.rows[j].apy24h, t.rows[i].apy24h) => i < j

\* Two real rows with equal apy24h shown in the reverse of their loaded order.
C10_Witness ==
    \E t \in Tables : \E i, j \in 1..Len(t.rows) :
        /\ i < j /\ t.index[i] > t.index[j] /\ t.index[j] > 1
        /\ t.rows[i].apy24h = t.rows[j].apy24h
        /\ t.rows[i].dex # t.rows[j].dex

====
